---- MODULE Spec2Model ----
(***************************************************************************)
(* Model of the chiptools incremental build core:                          *)
(*   - FileCache                (chiptools/core/cache.py)                  *)
(*   - Simulator.compile_project (chiptools/wrappers/simulator.py)         *)
(*   - CallGraph                (chiptools/parsers/callgraph.py)           *)
(* Spec      : build attempts of compile_project against the file system.  *)
(* SpecCache : the FileCache methods called in any order.                  *)
(* SpecGraph : get_definition_map / get_reference_map /                    *)
(*             get_design_hierarchy over bounded sets of parsed files.     *)
(***************************************************************************)
EXTENDS Integers, Sequences, FiniteSets, TLC

\* ------------------------------------------------------------------ bounds
NumFiles == 2
MaxCommands == 3
MaxCalls == 4
NumParsed == 3
MaxUnits == 4
MaxEdges == 3
MaxModified == 2
MaxStatements == 3
MaxLines == 2
PipeSize == 1

\* --------------------------------------------------------------- universes
Files == 1..NumFiles
Contents == {1, 2}
NoFile == 0
None == 0
NoHash == -1
Tools == {"modelsim", "isim"}
RawLibs == {"lib_a", "Lib_A", "lib_b"}
ParsedFiles == 1..NumParsed
UnitNames == {"u"}
UnitLibs == {"work", "lib_a"}
NoLibrary == ""

VARIABLES
    library,            \* File.library of each project file
    disk,               \* on-disk content of each file path, NoFile if absent
    libdirs,            \* library directories present in the simulation dir
    cache,              \* FileCache.cache   (in-memory dictionary)
    stored,             \* the pickled cache file
    pc,                 \* position inside compile_project
    tool,               \* Simulator.name of the running build attempt
    idx,                \* position of the file loop in project.get_files()
    file_object,        \* compile_project local
    created_libraries,  \* compile_project local
    skipped,            \* compile_project local
    count,              \* compile_project local
    exc,                \* exception in flight inside compile_project
    outcome,            \* how the last build attempt ended
    events,             \* calls made by the current / last build attempt
    failed,             \* per tool: file_object of its last failed attempt
    hashed,             \* per tool and file: content read by the last add_file
    compiled,           \* per tool and file: content compiled into the library
                        \* of the file since that library was last created
    commands,           \* number of user commands and file-system changes
    parsed_files,       \* ParsedVhdlFile: library, definitions, references
    definition_map,     \* result of CallGraph.get_definition_map
    reference_map,      \* result of CallGraph.get_reference_map
    graph,              \* result of CallGraph.get_design_hierarchy
    gpc,                \* "parse" while files are parsed, then "done"
    units,              \* number of declarations and statements parsed
    modified_nodes,     \* argument of the last CallGraph.get_callchain
    callchain,          \* what the last CallGraph.get_callchain returned
    source,             \* text of one VHDL file, as its list of statements
    parsed,             \* what ParsedVhdlFile._parse made of `source`
    proc,               \* subprocess.Popen object p: pipes, returncode
    written,            \* per stream: the lines the process has written
    threads,            \* per stream: position and line of its fanout thread
    sinks,              \* per stream: the file and the logger fanout writes
    tcall               \* position and result of utils.teed_call

buildvars == <<library, disk, libdirs, cache, stored, pc, tool, idx,
               file_object, created_libraries, skipped, count, exc, outcome,
               events, failed, hashed, compiled, commands>>

chain == <<modified_nodes, callchain>>

text == <<source, parsed>>

graphvars == <<parsed_files, definition_map, reference_map, graph, gpc, units,
               chain, text>>

teevars == <<proc, written, threads, sinks, tcall>>

vars == <<buildvars, graphvars, teevars>>

\* ------------------------------------------------------------- dictionaries
EmptyDict == <<>>

Put(d, k, v) == [x \in (DOMAIN d) \cup {k} |-> IF x = k THEN v ELSE d[x]]

Del(d, k) == [x \in (DOMAIN d) \ {k} |-> d[x]]

Range(s) == {s[i] : i \in DOMAIN s}

\* ------------------------------------------------------------ str.lower()
Lower(s) == IF s = "Lib_A" THEN "lib_a" ELSE s

Libs == {Lower(s) : s \in RawLibs}

\* hashlib.md5(f.read()).hexdigest(): collision free on the modelled contents
Md5(c) == (5 * c + 3) % 16

\* ------------------------------------------------------------- FileCache
field_id_files == "FILES"
field_id_libraries == "LIBRARIES"

blank_cache_element == [LIBRARIES |-> {}, FILES |-> EmptyDict]

\* mutant: a path without a recorded hash counts as unchanged
is_file_changed_unhashed(c, dsk, f, t) ==
    IF dsk[f] = NoFile THEN FALSE
    ELSE IF t \in DOMAIN c
         THEN IF f \in DOMAIN c[t].FILES
              THEN c[t].FILES[f] # Md5(dsk[f])
              ELSE FALSE
         ELSE TRUE

is_file_changed(c, dsk, f, t) ==
    IF dsk[f] = NoFile THEN FALSE
    ELSE IF t \in DOMAIN c
         THEN LET cached_md5 == IF f \in DOMAIN c[t].FILES
                                THEN c[t].FILES[f] ELSE NoHash
              IN  cached_md5 # Md5(dsk[f])
         ELSE TRUE

library_in_cache(c, libname, t) ==
    IF t \in DOMAIN c THEN libname \in c[t].LIBRARIES ELSE FALSE

get_libraries(c, t) ==
    IF t \in DOMAIN c THEN c[t].LIBRARIES ELSE {}

get_tool_names(c) == DOMAIN c

WithTool(c, t) ==
    IF t \notin DOMAIN c THEN Put(c, t, blank_cache_element) ELSE c

\* mutant: the element of the tool is always re-initialised
cache_add_library_resets(c, lib, t) ==
    LET c1 == Put(c, t, blank_cache_element)
    IN  [c1 EXCEPT ![t].LIBRARIES = @ \cup {lib}]

cache_add_library(c, lib, t) ==
    LET c1 == WithTool(c, t)
    IN  [c1 EXCEPT ![t].LIBRARIES = @ \cup {lib}]

\* mutant: one file dictionary shared by all the tools of the cache
add_file_shared(c, dsk, f, t) ==
    LET c1 == WithTool(c, t)
    IN  IF dsk[f] = NoFile
        THEN c1
        ELSE [u \in DOMAIN c1 |->
                 [c1[u] EXCEPT !.FILES = Put(@, f, Md5(dsk[f]))]]

\* open() raises on a missing path, after the tool element was created
add_file(c, dsk, f, t) ==
    LET c1 == WithTool(c, t)
    IN  IF dsk[f] = NoFile
        THEN c1
        ELSE [c1 EXCEPT ![t].FILES = Put(@, f, Md5(dsk[f]))]

\* mutant: the whole file dictionary of the tool is dropped
remove_file_all(c, f, t) ==
    LET c1 == WithTool(c, t)
    IN  [c1 EXCEPT ![t].FILES = EmptyDict]

remove_file(c, f, t) ==
    LET c1 == WithTool(c, t)
    IN  IF f \in DOMAIN c1[t].FILES
        THEN [c1 EXCEPT ![t].FILES = Del(@, f)]
        ELSE c1

\* pickle.dump(self.cache, cache_file): the dictionary flattened to entries
Pickle(c) ==
    [state |-> "pickle",
     tools |-> DOMAIN c,
     libs  |-> UNION {{<<t, l>> : l \in c[t].LIBRARIES} : t \in DOMAIN c},
     files |-> UNION {{<<t, f, c[t].FILES[f]>> : f \in DOMAIN c[t].FILES} :
                      t \in DOMAIN c}]

\* pickle.load(pickeFile)
Unpickle(p) ==
    [t \in p.tools |->
        [LIBRARIES |-> {x[2] : x \in {y \in p.libs : y[1] = t}},
         FILES |-> [f \in {x[2] : x \in {y \in p.files : y[1] = t}} |->
                       (CHOOSE e \in p.files : e[1] = t /\ e[2] = f)[3]]]]

save_cache(c) == Pickle(c)

\* the cache file as a new process may find it: absent, not a pickle,
\* write-only ("unreadable"), or neither readable nor writable ("locked": no
\* permission, a directory at the path, no parent directory)
DamagedFile(kind) == [state |-> kind, tools |-> {}, libs |-> {}, files |-> {}]

DamagedKinds == {"missing", "corrupt", "unreadable", "locked"}

\* load_cache, lines 58-67: any failure of open or pickle.load ends in
\* initialise_cache
load_cache(s) == IF s.state = "pickle" THEN Unpickle(s) ELSE EmptyDict

\* save_cache inside initialise_cache raises where the file cannot be opened
\* for writing; __init__ (lines 47-50) catches the IOError and calls
\* initialise_cache again, which raises again
init_raises(s) == s.state = "locked"

\* the cache file after __init__
stored_after_init(s) ==
    IF s.state \in {"pickle", "locked"} THEN s ELSE Pickle(EmptyDict)

\* initialise_cache: self.cache = {} ; self.save_cache()
initialise_cache == EmptyDict

\* ------------------------------------------------------------- vhdl.py
\* Entity, Package, Component, Configuration objects
Unit(kind, name, lib) == [kind |-> kind, name |-> name, library |-> lib]

\* __eq__ / __hash__: Package compares name and library, the others the name
Key(unit) ==
    IF unit.kind = "Package"
    THEN <<unit.kind, unit.name, unit.library>>
    ELSE <<unit.kind, unit.name, NoLibrary>>

\* set.add: an element equal to a present one is not added
SetAdd(set, unit) ==
    IF \E x \in set : Key(x) = Key(unit) THEN set ELSE set \cup {unit}

\* the library the project assigns to each parsed file
parsed_library(f) == IF f % 2 = 1 THEN "work" ELSE "lib_a"

\* ------------------------------------------------ ParsedVhdlFile._parse
\* one statement of the text, as the regular expressions of vhdl.py see it
Statement(stmt, label, lib, name, target) ==
    [stmt |-> stmt, label |-> label, library |-> lib, name |-> name,
     target |-> target]

Select(src, stmt) == SelectSeq(src, LAMBDA st : st.stmt = stmt)

NotParsed == [raised |-> "not parsed", definitions |-> {}, references |-> {}]

\* _get_libraries, lines 421-431
get_libraries_of(src) ==
    {"work"} \cup {src[i].library : i \in DOMAIN Select(src, "library")}

\* _get_binding_indications, lines 443-458: Configuration(name, library=...)
\* lacks the positional argument `entity` of Configuration.__init__ (line 236)
indication_raises(src) ==
    \E i \in DOMAIN src :
        src[i].stmt = "binding" /\ src[i].target = "configuration"

\* _get_binding_indications, lines 464-470: the first indication of a label
\* and component is the one kept
RECURSIVE get_binding_indications(_, _)
get_binding_indications(bindings, indications) ==
    IF bindings = <<>>
    THEN indications
    ELSE LET b == Head(bindings)
             k == <<b.label, b.name>>
         IN  get_binding_indications(Tail(bindings),
                 IF k \in DOMAIN indications
                 THEN indications
                 ELSE Put(indications, k, Unit("Entity", b.target, b.library)))

\* mutant: a bound instance keeps the implicit entity of the component's name
resolve_instance_implicit(inst, indications) ==
    IF inst.library # NoLibrary
    THEN <<Unit("Entity", inst.name, inst.library)>>
    ELSE IF <<inst.label, inst.name>> \in DOMAIN indications
         THEN <<indications[<<inst.label, inst.name>>],
                Unit("Entity", inst.name, NoLibrary)>>
         ELSE IF /\ \A k \in DOMAIN indications : k[1] # inst.label
                 /\ <<"all", inst.name>> \in DOMAIN indications
              THEN <<indications[<<"all", inst.name>>],
                     Unit("Entity", inst.name, NoLibrary)>>
              ELSE <<Unit("Component", inst.name, NoLibrary),
                     Unit("Entity", inst.name, NoLibrary)>>

\* Component.get_all_references, lines 331-354: the units one instantiation
\* adds to the set of references, in the order they are added
resolve_instance(inst, indications) ==
    IF inst.library # NoLibrary
    THEN <<Unit("Entity", inst.name, inst.library)>>
    ELSE IF <<inst.label, inst.name>> \in DOMAIN indications
         THEN <<indications[<<inst.label, inst.name>>]>>
         ELSE IF /\ \A k \in DOMAIN indications : k[1] # inst.label
                 /\ <<"all", inst.name>> \in DOMAIN indications
              THEN <<indications[<<"all", inst.name>>]>>
              ELSE <<Unit("Component", inst.name, NoLibrary),
                     Unit("Entity", inst.name, NoLibrary)>>

RECURSIVE AddAll(_, _)
AddAll(set, seq) ==
    IF seq = <<>> THEN set ELSE AddAll(SetAdd(set, Head(seq)), Tail(seq))

\* Component.get_all_references, lines 328-355
RECURSIVE get_all_references(_, _, _)
get_all_references(instances, indications, references) ==
    IF instances = <<>>
    THEN references
    ELSE get_all_references(Tail(instances), indications,
             AddAll(references, resolve_instance(Head(instances), indications)))

\* Package.get_all_references, lines 136-150: use clauses of known libraries
package_references(src) ==
    LET uses == SelectSeq(src, LAMBDA st :
                    st.stmt = "use" /\ st.library \in get_libraries_of(src))
    IN  AddAll({}, [i \in DOMAIN uses |->
                       Unit("Package", uses[i].name, uses[i].library)])

\* Procedure.get_all_definitions, lines 92-96: the pattern names its group
\* `id` (line 64) and the code asks for group `ident`
procedure_raises(src) ==
    \E i \in DOMAIN src :
        src[i].stmt = "declaration" /\ src[i].target = "ProcedureReturn"

\* the get_all_definitions of the six kinds, lines 494-525; a procedure
\* without `return` matches no pattern
all_definitions(src, lib) ==
    LET decls == SelectSeq(src, LAMBDA st :
                     st.stmt = "declaration" /\ st.target # "Procedure")
    IN  AddAll({}, [i \in DOMAIN decls |->
                       Unit(decls[i].target, decls[i].name, lib)])

\* _parse, lines 474-530
parse(src, lib) ==
    IF indication_raises(src)
    THEN [raised |-> "TypeError", definitions |-> {}, references |-> {}]
    ELSE IF procedure_raises(src)
    THEN [raised |-> "IndexError", definitions |-> {}, references |-> {}]
    ELSE [raised |-> "",
          definitions |-> all_definitions(src, lib),
          references |->
              get_all_references(Select(src, "instance"),
                  get_binding_indications(Select(src, "binding"), EmptyDict),
                  {})
              \cup package_references(src)]

\* --------------------------------------------------------- callgraph.py
FileOrder == [i \in ParsedFiles |-> i]

FileNode(f) ==
    [node |-> "file", file |-> f, kind |-> "", name |-> "", library |-> ""]

StubNode(unit) ==
    [node |-> "stub", file |-> 0, kind |-> unit.kind, name |-> unit.name,
     library |-> unit.library]

\* get_definition_map: unit -> set of the files that define it
get_definition_map(files) ==
    LET keys == {Key(d) : d \in UNION {files[f].definitions : f \in DOMAIN files}}
    IN  [k \in keys |->
            {f \in DOMAIN files : \E d \in files[f].definitions : Key(d) = k}]

\* get_reference_map: unit -> list of the files that reference it; the key of
\* the dictionary is the unit object of the first file that references it
get_reference_map(files) ==
    LET keys == {Key(r) : r \in UNION {files[f].references : f \in DOMAIN files}}
        refs(k) == SelectSeq(FileOrder,
                       LAMBDA f : \E r \in files[f].references : Key(r) = k)
    IN  [k \in keys |->
            [dependency |-> CHOOSE r \in files[Head(refs(k))].references :
                                Key(r) = k,
             parents |-> refs(k)]]

\* mutant: no elision of a parent that defines its own dependency
add_edges_self(g, dependency, children, parent) ==
    LET g0 == IF parent \notin DOMAIN g THEN Put(g, parent, {}) ELSE g
    IN  IF Cardinality(children) = 0 /\ dependency.kind # "Component"
        THEN [g0 EXCEPT ![parent] = @ \cup {StubNode(dependency)}]
        ELSE [g0 EXCEPT ![parent] = @ \cup {FileNode(c) : c \in children}]

\* mutant: "or" in place of "and" in the test for a stub
add_edges_or(g, dependency, children, parent) ==
    IF parent \in children
    THEN g
    ELSE LET g0 == IF parent \notin DOMAIN g THEN Put(g, parent, {}) ELSE g
         IN  IF Cardinality(children) = 0 \/ dependency.kind # "Component"
             THEN [g0 EXCEPT ![parent] = @ \cup {StubNode(dependency)}]
             ELSE [g0 EXCEPT ![parent] = @ \cup {FileNode(c) : c \in children}]

\* mutant: a stub for every unit that no file defines
add_edges_stub_all(g, dependency, children, parent) ==
    IF parent \in children
    THEN g
    ELSE LET g0 == IF parent \notin DOMAIN g THEN Put(g, parent, {}) ELSE g
         IN  IF Cardinality(children) = 0
             THEN [g0 EXCEPT ![parent] = @ \cup {StubNode(dependency)}]
             ELSE [g0 EXCEPT ![parent] = @ \cup {FileNode(c) : c \in children}]

\* lines 82-97: the body of the loop over the parents of one dependency
add_edges(g, dependency, children, parent) ==
    IF parent \in children
    THEN g
    ELSE LET g0 == IF parent \notin DOMAIN g THEN Put(g, parent, {}) ELSE g
         IN  IF Cardinality(children) = 0 /\ dependency.kind # "Component"
             THEN [g0 EXCEPT ![parent] = @ \cup {StubNode(dependency)}]
             ELSE [g0 EXCEPT ![parent] = @ \cup {FileNode(c) : c \in children}]

\* lines 79-97: for parent in parents
RECURSIVE for_parents(_, _, _, _)
for_parents(g, dependency, children, parents) ==
    IF parents = <<>>
    THEN g
    ELSE for_parents(add_edges(g, dependency, children, Head(parents)),
                     dependency, children, Tail(parents))

\* lines 70-97: for dependency in reference_map.keys(); the result does not
\* depend on the order of the keys
RECURSIVE for_dependencies(_, _, _, _)
for_dependencies(g, keys, dmap, rmap) ==
    IF keys = {}
    THEN g
    ELSE LET k == CHOOSE x \in keys : TRUE
             children == IF k \in DOMAIN dmap THEN dmap[k] ELSE {}
         IN  for_dependencies(
                 for_parents(g, rmap[k].dependency, children, rmap[k].parents),
                 keys \ {k}, dmap, rmap)

get_design_hierarchy(dmap, rmap) ==
    for_dependencies(EmptyDict, DOMAIN rmap, dmap, rmap)

\* utils.topological_sort: src/chiptools/common/utils.py defines no such
\* function, so evaluating the attribute raises AttributeError
AttributeError == [raised |-> "AttributeError", order |-> <<>>]

topological_sort(g) == AttributeError

\* what get_callchain hands back: None, or a list of nodes
NotCalled == [returned |-> "not called", list |-> <<>>]

ReturnNone == [returned |-> "None", list |-> <<>>]

ReturnList(l) == [returned |-> "list", list |-> l]

InSeq(x, seq) == \E i \in DOMAIN seq : seq[i] = x

\* lines 26-32: for n in sorted_nodes
RECURSIVE for_sorted_nodes(_, _, _)
for_sorted_nodes(g, sorted_nodes, chain_so_far) ==
    IF sorted_nodes = <<>>
    THEN chain_so_far
    ELSE LET n == Head(sorted_nodes)
             rest == Tail(sorted_nodes)
         IN  IF n.node # "file" \/ n.file \notin DOMAIN g
             THEN for_sorted_nodes(g, rest, chain_so_far)
             ELSE IF /\ \E i \in DOMAIN chain_so_far :
                            chain_so_far[i] \in g[n.file]
                     /\ ~InSeq(n, chain_so_far)
                  THEN for_sorted_nodes(g, rest, Append(chain_so_far, n))
                  ELSE for_sorted_nodes(g, rest, chain_so_far)

\* mutant: the failure of the sort is swallowed and the loop runs over the
\* keys of the graph
get_callchain_partial(g, modified) ==
    LET sorted_nodes == topological_sort(g)
    IN  IF sorted_nodes.raised # ""
        THEN ReturnList(for_sorted_nodes(g,
                 SelectSeq([i \in ParsedFiles |-> FileNode(i)],
                           LAMBDA n : n.file \in DOMAIN g), modified))
        ELSE ReturnList(for_sorted_nodes(g, sorted_nodes.order, modified))

\* get_callchain, lines 15-33
get_callchain(g, modified) ==
    LET sorted_nodes == topological_sort(g)
    IN  IF sorted_nodes.raised # ""
        THEN ReturnNone
        ELSE ReturnList(for_sorted_nodes(g, sorted_nodes.order, modified))


\* ------------------------------------------------------- utils.teed_call
Streams == {"stdout", "stderr"}

\* lines as the process writes them: text, text with trailing blanks, and
\* bytes that are not UTF-8
Lines == {"a", "b ", "xff"}

NotExited == -1

ExitCodes == {0, 3}

\* bytes.decode('utf-8') raises UnicodeDecodeError
decode_raises(line) == line = "xff"

\* str.rstrip
rstrip(line) == IF line = "b " THEN "b" ELSE line

\* a thread that ended, by return or by an exception
Ended == {"done", "raised"}

\* Thread.join returns once the thread has ended
is_joined(s) == threads[s].pc \in Ended

\* before teed_call: no process, no thread, empty sinks
InitTeed ==
    /\ proc = [pipe |-> [s \in Streams |-> <<>>],
            closed |-> [s \in Streams |-> FALSE],
            returncode |-> NotExited]
    /\ written = [s \in Streams |-> <<>>]
    /\ threads = [s \in Streams |-> [pc |-> "unstarted", line |-> ""]]
    /\ sinks = [s \in Streams |-> [file |-> <<>>, log |-> <<>>]]
    /\ tcall = [pc |-> "popen", result |-> NotExited]

\* ------------------------------------------------------------- Simulator
\* mutant: every file is compiled in every run
force_always == TRUE

force == FALSE

\* mutant: no existence check before the hash comparison
isfile_always(dsk, f) == TRUE

\* os.path.isfile(file_object.path)
isfile(dsk, f) == dsk[f] # NoFile

library_exists(dirs, lib) == lib \in dirs

libname == library[idx]

\* mutant: the library directory is not looked at
skip_file_ignores_library ==
    /\ ~force
    /\ ~is_file_changed(cache, disk, idx, tool)
    /\ libname \notin Range(created_libraries)

\* lines 98-105: the file is left alone
skip_file ==
    /\ ~force
    /\ ~is_file_changed(cache, disk, idx, tool)
    /\ library_exists(libdirs, libname)
    /\ libname \notin Range(created_libraries)

\* mutant: a library is created only when its directory is missing
create_library_if_missing == ~library_exists(libdirs, libname)

\* lines 114-117, evaluated after cache.add_file (line 111)
create_library ==
    \/ ~library_in_cache(add_file(cache, disk, idx, tool), libname, tool)
    \/ ~library_exists(libdirs, libname)

\* mutant: the created library is not remembered
created_after_forgets == created_libraries

\* line 122
created_after ==
    IF create_library
    THEN Append(created_libraries, libname)
    ELSE created_libraries

\* mutant: the hash of the file is not recorded before the external calls
cache_after_library_late ==
    IF create_library
    THEN cache_add_library(cache, Lower(libname), tool)
    ELSE cache

\* cache after lines 111-125 when self.add_library does not raise
cache_after_library ==
    LET c1 == add_file(cache, disk, idx, tool)
    IN  IF create_library
        THEN cache_add_library(c1, Lower(libname), tool)
        ELSE c1

\* self.add_library (vlib) leaves the library directory in place
libdirs_after ==
    IF create_library THEN libdirs \cup {libname} ELSE libdirs

\* what a library directory that is created anew or removed holds of the
\* files compiled into it before: nothing, for any tool
compiled_reset(cmp, libs) ==
    [t \in Tools |-> [f \in Files |->
        IF library[f] \in libs THEN NoFile ELSE cmp[t][f]]]

\* lines 122-135: self.add_library empties the library, self.compile puts
\* the content of the file into it unless it fails
compiled_after(ok) ==
    LET c1 == IF create_library
              THEN compiled_reset(compiled, {libname})
              ELSE compiled
    IN  IF ok THEN [c1 EXCEPT ![tool][idx] = disk[idx]] ELSE c1

\* line 100: the call of cache.is_file_changed and its result
changed_event ==
    IF is_file_changed(cache, disk, idx, tool)
    THEN <<"changed", idx>>
    ELSE <<"unchanged", idx>>

\* calls of lines 100-127 when nothing raises
events_after_library ==
    LET e1 == events \o <<changed_event, <<"add_file", idx>> >>
        e2 == IF create_library
              THEN e1 \o << <<"add_library", libname>>,
                            <<"cache_add_library", Lower(libname)>> >>
              ELSE e1
    IN  Append(e2, <<"set_working_library", libname>>)

\* mutant: the handler leaves the hash of the failing file in the cache
except_cache_keeps == cache

\* lines 146-147
except_cache ==
    IF file_object # None
    THEN remove_file(cache, file_object, tool)
    ELSE cache

\* mutant: the cache is saved before the failed file is removed
except_stored_early == save_cache(cache)

\* line 148, after line 147
except_stored == save_cache(except_cache)

InLoop == pc = "loop" /\ idx <= NumFiles

Raise(e) ==
    /\ pc' = "except"
    /\ exc' = e

project == <<library, graphvars, teevars>>

locals == <<pc, tool, idx, file_object, created_libraries, skipped, count,
            exc, events>>

\* Project.compile -> Simulator.compile_project, lines 73-89
StartCompile(t) ==
    /\ pc = "idle"
    /\ commands < MaxCommands
    /\ commands' = commands + 1
    /\ tool' = t
    /\ pc' = "loop"
    /\ idx' = 1
    /\ created_libraries' = <<>>
    /\ skipped' = 0
    /\ count' = 0
    /\ file_object' = None
    /\ exc' = "none"
    /\ events' = <<>>
    /\ UNCHANGED <<project, disk, libdirs, cache, stored, outcome, failed,
                   hashed, compiled>>

\* lines 91-97, 136-142: the file is not on disk
StepMissing ==
    /\ InLoop
    /\ ~isfile(disk, idx)
    /\ file_object' = idx
    /\ count' = count + 1
    /\ Raise("FileNotFoundError")
    /\ UNCHANGED <<project, disk, libdirs, cache, stored, tool, idx,
                   created_libraries, skipped, outcome, events, failed,
                   hashed, compiled, commands>>

\* lines 91-110: hashes match, library present and not created in this run
StepSkip ==
    /\ InLoop
    /\ isfile(disk, idx)
    /\ skip_file
    /\ file_object' = idx
    /\ count' = count + 1
    /\ skipped' = skipped + 1
    /\ events' = events \o <<changed_event, <<"skip", idx>> >>
    /\ idx' = idx + 1
    /\ UNCHANGED <<project, disk, libdirs, cache, stored, pc, tool,
                   created_libraries, exc, outcome, failed, hashed,
                   compiled, commands>>

\* lines 91-135, every external call returns
StepCompile ==
    /\ InLoop
    /\ isfile(disk, idx)
    /\ ~skip_file
    /\ file_object' = idx
    /\ count' = count + 1
    /\ cache' = cache_after_library
    /\ created_libraries' = created_after
    /\ libdirs' = libdirs_after
    /\ events' = Append(events_after_library, <<"compile", idx>>)
    /\ compiled' = compiled_after(TRUE)
    /\ idx' = idx + 1
    /\ UNCHANGED <<project, disk, stored, pc, tool, skipped, exc, outcome,
                   failed, hashed, commands>>

\* lines 111-124: self.add_library raises ExecutionError
StepAddLibraryRaises ==
    /\ InLoop
    /\ isfile(disk, idx)
    /\ ~skip_file
    /\ create_library
    /\ file_object' = idx
    /\ count' = count + 1
    /\ cache' = add_file(cache, disk, idx, tool)
    /\ created_libraries' = created_after
    /\ \E made \in BOOLEAN :
           libdirs' = IF made THEN libdirs \cup {libname} ELSE libdirs
    /\ events' = events \o <<changed_event, <<"add_file", idx>>,
                             <<"add_library", libname>> >>
    /\ compiled' = compiled_reset(compiled, {libname})
    /\ Raise("ExecutionError")
    /\ UNCHANGED <<project, disk, stored, tool, idx, skipped, outcome,
                   failed, hashed, commands>>

\* lines 111-127: self.set_working_library raises ExecutionError
StepSetWorkingLibraryRaises ==
    /\ InLoop
    /\ isfile(disk, idx)
    /\ ~skip_file
    /\ file_object' = idx
    /\ count' = count + 1
    /\ cache' = cache_after_library
    /\ created_libraries' = created_after
    /\ libdirs' = libdirs_after
    /\ events' = events_after_library
    /\ compiled' = compiled_after(FALSE)
    /\ Raise("ExecutionError")
    /\ UNCHANGED <<project, disk, stored, tool, idx, skipped, outcome,
                   failed, hashed, commands>>

\* lines 111-135: self.compile raises ExecutionError
StepCompileRaises ==
    /\ InLoop
    /\ isfile(disk, idx)
    /\ ~skip_file
    /\ file_object' = idx
    /\ count' = count + 1
    /\ cache' = cache_after_library
    /\ created_libraries' = created_after
    /\ libdirs' = libdirs_after
    /\ events' = Append(events_after_library, <<"compile", idx>>)
    /\ compiled' = compiled_after(FALSE)
    /\ Raise("ExecutionError")
    /\ UNCHANGED <<project, disk, stored, tool, idx, skipped, outcome,
                   failed, hashed, commands>>

\* lines 143-149: the handler of the file loop
ExceptHandler ==
    /\ pc = "except"
    /\ cache' = except_cache
    /\ stored' = except_stored
    /\ events' = events \o << <<"remove_file", file_object>>,
                              <<"save_cache", 0>>, <<"raise", 0>> >>
    /\ outcome' = exc
    /\ failed' = [failed EXCEPT ![tool] = file_object]
    /\ pc' = "idle"
    /\ UNCHANGED <<project, disk, libdirs, tool, idx, file_object,
                   created_libraries, skipped, count, exc, hashed,
                   compiled, commands>>

\* lines 150-164: the loop ran to its end
FinishCompile ==
    /\ pc = "loop"
    /\ idx > NumFiles
    /\ stored' = save_cache(cache)
    /\ events' = Append(events, <<"save_cache", 0>>)
    /\ outcome' = "ok"
    /\ failed' = [failed EXCEPT ![tool] = None]
    /\ pc' = "idle"
    /\ UNCHANGED <<project, disk, libdirs, cache, tool, idx, file_object,
                   created_libraries, skipped, count, exc, hashed,
                   compiled, commands>>

\* ------------------------------------------------- the user, between runs
Idle == pc = "idle" /\ commands < MaxCommands

EditFile(f, c) ==
    /\ Idle
    /\ c # disk[f]
    /\ disk' = [disk EXCEPT ![f] = c]
    /\ commands' = commands + 1
    /\ UNCHANGED <<project, libdirs, cache, stored, locals, outcome, failed,
                   hashed, compiled>>

DeleteFile(f) ==
    /\ Idle
    /\ disk[f] # NoFile
    /\ disk' = [disk EXCEPT ![f] = NoFile]
    /\ commands' = commands + 1
    /\ UNCHANGED <<project, libdirs, cache, stored, locals, outcome, failed,
                   hashed, compiled>>

DeleteLibrary(l) ==
    /\ Idle
    /\ l \in libdirs
    /\ libdirs' = libdirs \ {l}
    /\ compiled' = compiled_reset(compiled, {l})
    /\ commands' = commands + 1
    /\ UNCHANGED <<project, disk, cache, stored, locals, outcome, failed,
                   hashed>>

\* FileCache.__init__ -> load_cache in a new process
Restart ==
    /\ Idle
    /\ cache' = load_cache(stored)
    /\ commands' = commands + 1
    /\ UNCHANGED <<project, disk, libdirs, stored, locals, outcome, failed,
                   hashed, compiled>>

\* CommandLine.do_clean
do_clean ==
    /\ Idle
    /\ libdirs' = libdirs \ UNION {get_libraries(cache, t) :
                                     t \in get_tool_names(cache)}
    /\ compiled' = compiled_reset(compiled,
                       UNION {get_libraries(cache, t) :
                                 t \in get_tool_names(cache)})
    /\ cache' = initialise_cache
    /\ stored' = save_cache(initialise_cache)
    /\ commands' = commands + 1
    /\ UNCHANGED <<project, disk, locals, outcome, failed, hashed>>

\* Project.add_file lower-cases the library of every file; FileCache.__init__
\* finds no cache file and initialises an empty one
InitBuild ==
    /\ library \in {[f \in Files |-> Lower(raw[f])] : raw \in [Files -> RawLibs]}
    /\ disk = [f \in Files |-> 1]
    /\ libdirs = {}
    /\ cache = initialise_cache
    /\ stored = save_cache(initialise_cache)
    /\ pc = "idle"
    /\ tool = "modelsim"
    /\ idx = 1
    /\ file_object = None
    /\ created_libraries = <<>>
    /\ skipped = 0
    /\ count = 0
    /\ exc = "none"
    /\ outcome = "none"
    /\ events = <<>>
    /\ failed = [t \in Tools |-> None]
    /\ hashed = [t \in Tools |-> [f \in Files |-> NoFile]]
    /\ compiled = [t \in Tools |-> [f \in Files |-> NoFile]]
    /\ commands = 0
    /\ InitTeed

\* CallGraph.__init__: nothing parsed, nothing computed
InitFiles ==
    parsed_files = [f \in ParsedFiles |->
                       [library |-> parsed_library(f),
                        definitions |-> {},
                        references |-> {}]]

InitParsed ==
    /\ definition_map = EmptyDict
    /\ reference_map = EmptyDict
    /\ units = 0
    /\ modified_nodes = <<>>
    /\ callchain = NotCalled
    /\ source = <<>>
    /\ parsed = NotParsed

Init ==
    /\ InitBuild
    /\ InitFiles
    /\ InitParsed
    /\ graph = EmptyDict
    /\ gpc = "parse"

Next ==
    \/ \E t \in Tools : StartCompile(t)
    \/ StepMissing
    \/ StepSkip
    \/ StepCompile
    \/ StepAddLibraryRaises
    \/ StepSetWorkingLibraryRaises
    \/ StepCompileRaises
    \/ ExceptHandler
    \/ FinishCompile
    \/ \E f \in Files, c \in Contents : EditFile(f, c)
    \/ \E f \in Files : DeleteFile(f)
    \/ \E l \in Libs : DeleteLibrary(l)
    \/ Restart
    \/ do_clean

Spec == Init /\ [][Next]_vars

\* ================================ build attempts with nothing in between
NextRebuild ==
    \/ \E t \in Tools : StartCompile(t)
    \/ StepSkip
    \/ StepCompile
    \/ StepAddLibraryRaises
    \/ StepSetWorkingLibraryRaises
    \/ StepCompileRaises
    \/ ExceptHandler
    \/ FinishCompile

SpecRebuild == Init /\ [][NextRebuild]_vars

\* ============ build attempts of one tool, libraries deleted between them
\* a library directory is removed from the simulation directory
LibraryDeleted(l) ==
    /\ pc = "idle"
    /\ l \in libdirs
    /\ libdirs' = libdirs \ {l}
    /\ compiled' = compiled_reset(compiled, {l})
    /\ UNCHANGED <<project, disk, cache, stored, locals, outcome, failed,
                   hashed, commands>>

NextOneTool ==
    \/ StartCompile("modelsim")
    \/ StepMissing
    \/ StepSkip
    \/ StepCompile
    \/ StepCompileRaises
    \/ ExceptHandler
    \/ FinishCompile
    \/ \E f \in Files, c \in Contents : EditFile(f, c)
    \/ \E f \in Files : DeleteFile(f)
    \/ \E l \in Libs : LibraryDeleted(l)

SpecOneTool == Init /\ [][NextOneTool]_vars

\* ============================================ FileCache, called directly
build == <<project, libdirs, locals, outcome, failed, compiled>>

Call ==
    /\ commands < MaxCalls
    /\ stored.state = "pickle"
    /\ commands' = commands + 1

CacheAddFile(f, t) ==
    /\ Call
    /\ cache' = add_file(cache, disk, f, t)
    /\ hashed' = IF disk[f] = NoFile
                 THEN hashed
                 ELSE [hashed EXCEPT ![t][f] = disk[f]]
    /\ UNCHANGED <<build, disk, stored>>

CacheAddLibrary(l, t) ==
    /\ Call
    /\ cache' = cache_add_library(cache, l, t)
    /\ UNCHANGED <<build, disk, stored, hashed>>

CacheRemoveFile(f, t) ==
    /\ Call
    /\ cache' = remove_file(cache, f, t)
    /\ hashed' = [hashed EXCEPT ![t][f] = NoFile]
    /\ UNCHANGED <<build, disk, stored>>

CacheInitialise ==
    /\ Call
    /\ cache' = initialise_cache
    /\ stored' = save_cache(initialise_cache)
    /\ hashed' = [t \in Tools |-> [f \in Files |-> NoFile]]
    /\ UNCHANGED <<build, disk>>

\* save_cache, then load_cache by the FileCache of a new process
CacheSaveLoad ==
    /\ Call
    /\ stored' = save_cache(cache)
    /\ cache' = load_cache(save_cache(cache))
    /\ UNCHANGED <<build, disk, hashed>>

\* the file is rewritten or deleted on disk
CacheEditFile(f, c) ==
    /\ Call
    /\ c # disk[f]
    /\ disk' = [disk EXCEPT ![f] = c]
    /\ UNCHANGED <<build, cache, stored, hashed>>

\* the process ends and its cache file is deleted, overwritten or locked
CacheFileDamaged(kind) ==
    /\ Call
    /\ stored' = DamagedFile(kind)
    /\ UNCHANGED <<build, disk, cache, hashed>>

\* FileCache.__init__ of a new process over a damaged cache file
CacheConstruct ==
    /\ commands < MaxCalls
    /\ stored.state # "pickle"
    /\ commands' = commands + 1
    /\ cache' = load_cache(stored)
    /\ stored' = stored_after_init(stored)
    /\ exc' = IF init_raises(stored) THEN "IOError" ELSE "none"
    /\ hashed' = [t \in Tools |-> [f \in Files |-> NoFile]]
    /\ UNCHANGED <<project, libdirs, disk, pc, tool, idx, file_object,
                   created_libraries, skipped, count, events, outcome, failed,
                   compiled>>

NextCache ==
    \/ \E kind \in DamagedKinds : CacheFileDamaged(kind)
    \/ CacheConstruct
    \/ \E f \in Files, t \in Tools : CacheAddFile(f, t)
    \/ \E l \in Libs, t \in Tools : CacheAddLibrary(l, t)
    \/ \E f \in Files, t \in Tools : CacheRemoveFile(f, t)
    \/ CacheInitialise
    \/ CacheSaveLoad
    \/ \E f \in Files, c \in Contents \cup {NoFile} : CacheEditFile(f, c)

\* the library assignment plays no part in the cache methods
InitCache == Init /\ library = [f \in Files |-> "lib_a"]

SpecCache == InitCache /\ [][NextCache]_vars

\* ================================================== CallGraph over files
builder == <<library, disk, libdirs, cache, stored, locals, outcome, failed,
             hashed, compiled, commands, teevars>>

Parsing ==
    /\ gpc = "parse"
    /\ units < MaxUnits
    /\ units' = units + 1

\* Entity / Package / Component / Configuration .get_all_definitions
ParseDeclaration(f, kind, name) ==
    /\ Parsing
    /\ parsed_files' = [parsed_files EXCEPT ![f].definitions =
           SetAdd(@, Unit(kind, name, parsed_files[f].library))]
    /\ UNCHANGED <<builder, definition_map, reference_map, graph, gpc, chain,
                 text>>

\* Package.get_all_references: use <lib>.<name>.all;
ParseUseClause(f, lib, name) ==
    /\ Parsing
    /\ parsed_files' = [parsed_files EXCEPT ![f].references =
           SetAdd(@, Unit("Package", name, lib))]
    /\ UNCHANGED <<builder, definition_map, reference_map, graph, gpc, chain,
                 text>>

\* Component.get_all_references, lines 335-337 and 343-348: an instantiation
\* qualified with a library, or bound to an entity by a binding indication
ParseEntityInstance(f, lib, name) ==
    /\ Parsing
    /\ parsed_files' = [parsed_files EXCEPT ![f].references =
           SetAdd(@, Unit("Entity", name, lib))]
    /\ UNCHANGED <<builder, definition_map, reference_map, graph, gpc, chain,
                 text>>

\* Component.get_all_references, lines 339 and 350-354: the component and the
\* implicit entity of the same name
ParseComponentInstance(f, name) ==
    /\ Parsing
    /\ parsed_files' = [parsed_files EXCEPT ![f].references =
           SetAdd(SetAdd(@, Unit("Component", name, NoLibrary)),
                  Unit("Entity", name, NoLibrary))]
    /\ UNCHANGED <<builder, definition_map, reference_map, graph, gpc, chain,
                 text>>

BuildHierarchy ==
    /\ gpc = "parse"
    /\ definition_map' = get_definition_map(parsed_files)
    /\ reference_map' = get_reference_map(parsed_files)
    /\ graph' = get_design_hierarchy(get_definition_map(parsed_files),
                                     get_reference_map(parsed_files))
    /\ gpc' = "done"
    /\ UNCHANGED <<builder, parsed_files, units, chain, text>>

NextGraph ==
    \/ \E f \in ParsedFiles, n \in UnitNames,
          k \in {"Entity", "Package", "Component", "Configuration"} :
              ParseDeclaration(f, k, n)
    \/ \E f \in ParsedFiles, l \in UnitLibs, n \in UnitNames :
              ParseUseClause(f, l, n)
    \/ \E f \in ParsedFiles, l \in UnitLibs, n \in UnitNames :
              ParseEntityInstance(f, l, n)
    \/ \E f \in ParsedFiles, n \in UnitNames : ParseComponentInstance(f, n)
    \/ BuildHierarchy

\* no project file takes part in the build here
InitGraph == Init /\ library = [f \in Files |-> "lib_a"]

SpecGraph == InitGraph /\ [][NextGraph]_vars


\* ------------------------------------------- CallGraph.get_callchain alone
TheStub == StubNode(Unit("Entity", "u", "work"))

\* an edge parent -> file or parent -> stub, as get_design_hierarchy leaves
\* them: no file is its own dependency
PossibleEdges ==
    {e \in ParsedFiles \X ({FileNode(f) : f \in ParsedFiles} \cup {TheStub}) :
        e[2] # FileNode(e[1])}

GraphOf(edges, empties) ==
    LET keys == {e[1] : e \in edges} \cup empties
    IN  [p \in keys |-> {e[2] : e \in {x \in edges : x[1] = p}}]

\* a file whose only reference is an unresolved component keeps an empty set
Graphs ==
    {GraphOf(edges, empties) :
        edges \in {E \in SUBSET PossibleEdges : Cardinality(E) <= MaxEdges},
        empties \in {{}} \cup {{f} : f \in ParsedFiles}}

RECURSIVE Lists(_)
Lists(n) ==
    IF n = 0
    THEN {<<>>}
    ELSE Lists(n - 1) \cup
         {Append(l, FileNode(f)) : l \in Lists(n - 1), f \in ParsedFiles}

\* the modified nodes a caller passes: source files, none twice
ModifiedLists ==
    {l \in Lists(MaxModified) :
        \A i, j \in DOMAIN l : i # j => l[i] # l[j]}

GetCallchain(modified) ==
    /\ gpc = "done"
    /\ modified_nodes' = modified
    /\ callchain' = get_callchain(graph, modified)
    /\ gpc' = "chained"
    /\ UNCHANGED <<builder, parsed_files, definition_map, reference_map,
                   graph, units, text>>

NextChain == \E modified \in ModifiedLists : GetCallchain(modified)

InitChain ==
    /\ InitBuild
    /\ library = [f \in Files |-> "lib_a"]
    /\ InitFiles
    /\ InitParsed
    /\ graph \in Graphs
    /\ gpc = "done"

SpecChain == InitChain /\ [][NextChain]_vars

\* ===================================================== claims on Spec
HasEvent(ev, kind, arg) == \E i \in DOMAIN ev : ev[i] = <<kind, arg>>

\* the calls made by the step from the current state to the next one
NewEvents == SubSeq(events', Len(events) + 1, Len(events'))

LoopStepOn(f) ==
    /\ pc = "loop"
    /\ idx = f
    /\ idx <= NumFiles
    /\ (idx' # idx \/ pc' # pc)

AttemptEnds == pc # "idle" /\ pc' = "idle"

Mutators == {"add_file", "cache_add_library", "remove_file"}

\* C1: for a file that exists on disk, compile_project skips it exactly when
\* force is false, is_file_changed is false, its library exists and that
\* library was not created earlier in this run; a skipped file changes neither
\* the cache nor the libraries and calls neither add_library nor compile;
\* every other file goes down the compile path (its hash is recorded and
\* compile is invoked unless an external library call raises first).
C1_SkipExactlyWhenUpToDate ==
    [][\A f \in Files :
        (LoopStepOn(f) /\ disk[f] # NoFile) =>
            LET up_to_date ==
                    /\ ~force
                    /\ ~is_file_changed(cache, disk, f, tool)
                    /\ library[f] \in libdirs
                    /\ ~HasEvent(events, "add_library", library[f])
                was_skipped == HasEvent(NewEvents, "skip", f)
            IN  /\ was_skipped <=> up_to_date
                /\ was_skipped =>
                      /\ cache' = cache
                      /\ stored' = stored
                      /\ libdirs' = libdirs
                      /\ \A i \in DOMAIN NewEvents :
                            NewEvents[i][1] \in {"unchanged", "skip"}
                      /\ pc' = "loop"
                      /\ idx' = f + 1
                /\ ~was_skipped =>
                      /\ HasEvent(NewEvents, "add_file", f)
                      /\ \/ HasEvent(NewEvents, "compile", f)
                         \/ /\ exc' = "ExecutionError"
                            /\ NewEvents[Len(NewEvents)][1] \in
                                  {"add_library", "set_working_library"}
      ]_vars

C1_Witness ==
    /\ pc = "loop"
    /\ \E f, h \in Files :
          /\ HasEvent(events, "skip", f)
          /\ HasEvent(events, "unchanged", h) /\ HasEvent(events, "compile", h)

\* C2: when self.compile raises on file F, the attempt ends with F's hash
\* absent from the cache of that tool, the hashes of the files compiled
\* earlier in the run still recorded, the cache file equal to the cache, and
\* the exception handed to the caller.
C2_CompileFailureForgetsOnlyF ==
    [][(AttemptEnds /\ pc = "except" /\ Len(events) > 0
        /\ events[Len(events)] = <<"compile", file_object>>) =>
            /\ tool \in DOMAIN cache'
            /\ file_object \notin DOMAIN cache'[tool].FILES
            /\ \A g \in Files :
                  (g # file_object /\ HasEvent(events, "compile", g)) =>
                      /\ g \in DOMAIN cache'[tool].FILES
                      /\ cache'[tool].FILES[g] = Md5(disk[g])
            /\ load_cache(stored') = cache'
            /\ outcome' = "ExecutionError"
      ]_vars

C2_Witness ==
    /\ pc = "idle"
    /\ outcome = "ExecutionError"
    /\ HasEvent(events, "compile", file_object)
    /\ \E g \in Files :
          /\ g # file_object
          /\ HasEvent(events, "compile", g)
          /\ g \in DOMAIN cache[tool].FILES
    /\ file_object \notin DOMAIN cache[tool].FILES

\* C3: after an attempt for tool T failed on file F, the next attempt for T
\* that reaches F while F is on disk never skips F: it goes down the compile
\* path whatever the content of F is.
C3_FailedFileIsRetried ==
    [][\A f \in Files :
        (LoopStepOn(f) /\ failed[tool] = f /\ disk[f] # NoFile) =>
            /\ ~HasEvent(NewEvents, "skip", f)
            /\ HasEvent(NewEvents, "changed", f)
            /\ HasEvent(NewEvents, "add_file", f)
            /\ HasEvent(NewEvents, "compile", f) \/ exc' = "ExecutionError"
      ]_vars

C3_Witness ==
    /\ pc = "loop"
    /\ failed[tool] # None
    /\ HasEvent(events, "compile", failed[tool])
    /\ ~HasEvent(events, "add_library", library[failed[tool]])
    /\ tool \in DOMAIN cache
    /\ failed[tool] \in DOMAIN cache[tool].FILES

\* for every library created in the attempt, every file of the library was
\* passed to compile and has a hash recorded in this attempt
LibraryFilesRecompiled ==
    \A lib \in Libs :
        HasEvent(events, "add_library", lib) =>
            \A f \in Files :
                library[f] = lib =>
                    /\ HasEvent(events, "add_file", f)
                    /\ HasEvent(events, "compile", f)
                    /\ tool \in DOMAIN cache
                    /\ f \in DOMAIN cache[tool].FILES
                    /\ cache[tool].FILES[f] = Md5(disk[f])

C6_MissingFileAborts ==
    [][/\ \A f \in Files :
            (LoopStepOn(f) /\ disk[f] = NoFile) =>
                /\ ~is_file_changed(cache, disk, f, tool)
                /\ pc' = "except"
                /\ exc' = "FileNotFoundError"
                /\ file_object' = f
                /\ events' = events
                /\ cache' = cache
       /\ (AttemptEnds /\ exc = "FileNotFoundError") =>
                /\ outcome' = "FileNotFoundError"
                /\ \A i \in DOMAIN events' :
                      events'[i][1] \in {"skip", "add_file", "compile"} =>
                          events'[i][2] < file_object
      ]_vars

C6_Witness ==
    /\ pc = "idle"
    /\ outcome = "FileNotFoundError"
    /\ file_object # None
    /\ file_object < NumFiles
    /\ disk[file_object] = NoFile
    /\ tool \in DOMAIN cache
    /\ \E g \in Files : g > file_object /\ g \in DOMAIN cache[tool].FILES

\* C7: every attempt, completed or ended by an exception of the file loop,
\* calls save_cache after its last cache mutation; when it ends the cache
\* file holds the in-memory cache.
C7_CacheSavedWhenAttemptEnds ==
    [][AttemptEnds =>
            /\ load_cache(stored') = cache'
            /\ \E i \in DOMAIN events' :
                  /\ events'[i][1] = "save_cache"
                  /\ \A j \in DOMAIN events' :
                        events'[j][1] \in Mutators => j < i
      ]_vars

C7_Witness ==
    /\ pc = "idle"
    /\ outcome = "ExecutionError"
    /\ tool \in DOMAIN cache
    /\ DOMAIN cache[tool].FILES # {}
    /\ load_cache(stored) = cache
    /\ HasEvent(events, "remove_file", file_object)

C20_DamagedCacheStartsEmpty ==
    [][stored.state # "pickle" =>
          /\ exc' = "none"
          /\ cache' = EmptyDict
          /\ stored' = save_cache(EmptyDict)
          /\ \A f \in Files, t \in Tools :
                 disk'[f] # NoFile => is_file_changed(cache', disk', f, t)
          /\ \A l \in Libs, t \in Tools : ~library_in_cache(cache', l, t)]_vars

\* ================================================== claims on SpecGraph
Defines(f, k) == \E d \in parsed_files[f].definitions : Key(d) = k

References(f, k) == \E r \in parsed_files[f].references : Key(r) = k

AllKeys ==
    {Key(u) : u \in UNION {parsed_files[f].definitions \cup
                           parsed_files[f].references : f \in ParsedFiles}}

Edges(f) == IF f \in DOMAIN graph THEN graph[f] ELSE {}

\* C8: the graph of get_design_hierarchy has no self-edge: no file is in its
\* own dependency set.
C8_NoSelfEdge ==
    gpc = "done" => \A f \in ParsedFiles : FileNode(f) \notin Edges(f)

C8_Witness ==
    /\ gpc = "done"
    /\ \E f, g, h \in ParsedFiles, k \in AllKeys :
          /\ f # g /\ h # f /\ h # g
          /\ Defines(f, k) /\ References(f, k)
          /\ Defines(g, k)
          /\ References(h, k)
          /\ Edges(h) = {FileNode(f), FileNode(g)}

\* C9 as stated: if A defines U and another file B references U, the graph
\* has the edge B -> A.
C9_Original ==
    gpc = "done" =>
        \A a, b \in ParsedFiles, k \in AllKeys :
            (a # b /\ Defines(a, k) /\ References(b, k)) =>
                FileNode(a) \in Edges(b)

\* C9 amended: if A defines U and another file B references U without
\* defining U itself, the graph has the edge B -> A, whichever other files
\* define or reference U.
C9_EdgeToEveryDefiner ==
    gpc = "done" =>
        \A a, b \in ParsedFiles, k \in AllKeys :
            (a # b /\ Defines(a, k) /\ References(b, k) /\ ~Defines(b, k)) =>
                FileNode(a) \in Edges(b)

C9_Witness ==
    /\ gpc = "done"
    /\ \E a, b, c \in ParsedFiles, k \in AllKeys :
          /\ a # b /\ c # a /\ c # b
          /\ Defines(a, k) /\ Defines(c, k)
          /\ References(b, k) /\ ~Defines(b, k)
          /\ {FileNode(a), FileNode(c)} \subseteq Edges(b)

Unresolved(k) == \A f \in ParsedFiles : ~Defines(f, k)

\* what one reference of file f puts into the dependency set of f
Contribution(f, r) ==
    LET definers == {g \in ParsedFiles : Defines(g, Key(r))}
    IN  IF f \in definers THEN {}
        ELSE IF definers # {} THEN {FileNode(g) : g \in definers}
        ELSE IF r.kind = "Component" THEN {}
        ELSE {n \in Edges(f) : n.node = "stub" /\ Key(n) = Key(r)}

\* C10: a Component reference that no file defines puts neither an edge nor
\* a stub into the dependency set of the referencing file, which holds just
\* what its other references put there; a reference of another kind that no
\* file defines puts exactly one stub there, the unresolved unit itself.
C10_UnresolvedComponentNoStub ==
    gpc = "done" =>
        \A f \in ParsedFiles : \A r \in parsed_files[f].references :
            Unresolved(Key(r)) =>
                IF r.kind = "Component"
                THEN /\ \A n \in Edges(f) :
                          ~(n.node = "stub" /\ n.kind = "Component")
                     /\ Edges(f) = UNION {Contribution(f, x) :
                            x \in parsed_files[f].references \ {r}}
                ELSE /\ f \in DOMAIN graph
                     /\ Cardinality({n \in graph[f] :
                            n.node = "stub" /\ Key(n) = Key(r)}) = 1
                     /\ \A n \in graph[f] :
                            Key(n) = Key(r) => n.node = "stub" /\ n.file = 0

C10_Witness ==
    /\ gpc = "done"
    /\ \E f \in ParsedFiles : \E rc, re \in parsed_files[f].references :
          /\ rc.kind = "Component" /\ Unresolved(Key(rc))
          /\ re.kind = "Entity" /\ Unresolved(Key(re))
          /\ graph[f] = {StubNode(re)}

\* ------------------------------- three files of one library, end to end
pkg_vhd == 1
top_vhd == 2
tb_vhd == 3

\* the statements of pkg.vhd, top.vhd and tb.vhd, then the graph, then the
\* call chain of one modified file
NextScenario ==
    \/ ParseDeclaration(pkg_vhd, "Package", "util")
    \/ \E l \in UnitLibs : ParseUseClause(top_vhd, l, "util")
    \/ ParseDeclaration(top_vhd, "Entity", "top")
    \/ ParseComponentInstance(tb_vhd, "top")
    \/ BuildHierarchy
    \/ \E f \in {pkg_vhd, top_vhd, tb_vhd} : GetCallchain(<<FileNode(f)>>)

\* Project.add_file: the project assigns one library to the three files
InitScenario ==
    /\ InitBuild
    /\ library = [f \in Files |-> "lib_a"]
    /\ InitParsed
    /\ \E l \in UnitLibs :
          parsed_files = [f \in ParsedFiles |->
              [library |-> l, definitions |-> {}, references |-> {}]]
    /\ graph = EmptyDict
    /\ gpc = "parse"

SpecScenario == InitScenario /\ [][NextScenario]_vars

\* --------------------------------------------- ParsedVhdlFile of one file
Labels == {"l", "m"}

Statements ==
    {Statement("declaration", "", "", n, k) :
        n \in {"c", "e"},
        k \in {"Entity", "Package", "Component", "Configuration", "Function",
               "Procedure", "ProcedureReturn"}}
    \cup {Statement("binding", l, "lib_b", "c", t) :
        l \in Labels \cup {"all"}, t \in {"e", "configuration"}}
    \cup {Statement("binding", l, "lib_b", "d", "e") : l \in Labels}
    \cup {Statement("instance", l, lib, "c", "") :
        l \in Labels, lib \in {NoLibrary, "lib_b"}}
    \cup {Statement("use", "", lib, "e", "") :
             lib \in {"work", "lib_a", "lib_b"}}
    \cup {Statement("library", "", "lib_b", "", "")}

\* one more statement in the text of the file
WriteStatement(st) ==
    /\ parsed = NotParsed
    /\ Len(source) < MaxStatements
    /\ source' = Append(source, st)
    /\ UNCHANGED <<builder, parsed_files, definition_map, reference_map,
                   graph, gpc, units, chain, parsed>>

\* ParsedVhdlFile.__init__, lines 403-411, of a file of library lib_a
Parse ==
    /\ parsed = NotParsed
    /\ parsed' = parse(source, "lib_a")
    /\ UNCHANGED <<builder, parsed_files, definition_map, reference_map,
                   graph, gpc, units, chain, source>>

NextParse ==
    \/ \E st \in Statements : WriteStatement(st)
    \/ Parse

InitParse == Init /\ library = [f \in Files |-> "lib_a"]

SpecParse == InitParse /\ [][NextParse]_vars

\* C17: identities of one kind are equal only if name and library both
\* match, so a file whose one reference names unit U of library L1 gets no
\* edge to a file that defines U in another library.
C17_LibraryScopedResolution ==
    gpc = "done" =>
        \A a, b \in ParsedFiles : \A r \in parsed_files[b].references :
            (/\ a # b
             /\ parsed_files[b].references = {r}
             /\ r.library # NoLibrary
             /\ r.library # parsed_files[a].library
             /\ \E d \in parsed_files[a].definitions :
                    d.kind = r.kind /\ d.name = r.name)
            => FileNode(a) \notin Edges(b)

\* ================================================== claims on SpecChain
FileDeps(g, f) ==
    IF f \in DOMAIN g THEN {n.file : n \in {x \in g[f] : x.node = "file"}}
    ELSE {}

\* the files reachable from the files of `from` along dependency edges
RECURSIVE Closure(_, _)
Closure(g, from) ==
    LET more == from \cup UNION {FileDeps(g, f) : f \in from}
    IN  IF more = from THEN from ELSE Closure(g, more)

TransitiveDeps(g, f) == Closure(g, FileDeps(g, f))

Cyclic(g) == \E f \in ParsedFiles : f \in TransitiveDeps(g, f)

GraphNodes(g) == {FileNode(f) : f \in DOMAIN g} \cup UNION {g[f] : f \in DOMAIN g}

Position(seq, x) == CHOOSE i \in DOMAIN seq : seq[i] = x

\* every dependency of a listed file that is listed too stands before it
DependencyFirst(g, seq) ==
    \A i \in DOMAIN seq : \A d \in FileDeps(g, seq[i].file) :
        seq[i].node = "file" /\ InSeq(FileNode(d), seq) =>
            Position(seq, FileNode(d)) < i

Chained == gpc = "chained"

\* C11: for an acyclic graph the topological sort inside get_callchain gives
\* an order holding every node of the graph exactly once, each node after
\* the nodes it depends on.
C11_TopologicalOrder ==
    (Chained /\ ~Cyclic(graph)) =>
        LET sorted_nodes == topological_sort(graph)
        IN  /\ sorted_nodes.raised = ""
            /\ \A n \in GraphNodes(graph) :
                   Cardinality({i \in DOMAIN sorted_nodes.order :
                                   sorted_nodes.order[i] = n}) = 1
            /\ \A i \in DOMAIN sorted_nodes.order :
                   sorted_nodes.order[i] \in GraphNodes(graph)
            /\ DependencyFirst(graph, sorted_nodes.order)

C13_CallchainOfOneFile ==
    (Chained /\ ~Cyclic(graph) /\ Len(modified_nodes) = 1) =>
        /\ callchain.returned = "list"
        /\ InSeq(modified_nodes[1], callchain.list)
        /\ \A f \in ParsedFiles :
               modified_nodes[1].file \in TransitiveDeps(graph, f) =>
                   InSeq(FileNode(f), callchain.list)
        /\ DependencyFirst(graph, callchain.list)

\* C14: for an acyclic graph and any list of modified files, get_callchain
\* returns a list in which every file stands after each of its dependencies
\* that is listed too.
C14_SafeRebuildOrder ==
    (Chained /\ ~Cyclic(graph)) =>
        /\ callchain.returned = "list"
        /\ DependencyFirst(graph, callchain.list)

\* C15: get_callchain returns the minimal invalidated set: a list whose
\* elements outside `modified` are source files with a dependency path to a
\* modified file, and never a stub.
C15_MinimalInvalidatedSet ==
    (Chained /\ ~Cyclic(graph)) =>
        /\ callchain.returned = "list"
        /\ \A i \in DOMAIN callchain.list :
               LET n == callchain.list[i]
               IN  \/ InSeq(n, modified_nodes)
                   \/ /\ n.node = "file"
                      /\ \E m \in DOMAIN modified_nodes :
                            modified_nodes[m].file \in
                                TransitiveDeps(graph, n.file)

\* ================================================== claims on SpecScenario
ScenarioParsed ==
    /\ gpc # "parse"
    /\ \E l \in UnitLibs :
          /\ parsed_files[pkg_vhd].definitions = {Unit("Package", "util", l)}
          /\ parsed_files[top_vhd].definitions = {Unit("Entity", "top", l)}
    /\ \E r \in parsed_files[top_vhd].references : r.name = "util"
    /\ \E r \in parsed_files[tb_vhd].references : r.kind = "Component"

Defining(kind, name) ==
    UNION {definition_map[k] :
              k \in {x \in DOMAIN definition_map : x[1] = kind /\ x[2] = name}}

\* C18: for pkg.vhd, top.vhd and tb.vhd of one library the definition map
\* gives Package util to pkg.vhd and Entity top to top.vhd, the graph has the
\* edges top.vhd -> pkg.vhd and tb.vhd -> top.vhd, and the topological order
\* is pkg.vhd, top.vhd, tb.vhd.
C18_EndToEnd ==
    ScenarioParsed =>
        /\ Defining("Package", "util") = {pkg_vhd}
        /\ Defining("Entity", "top") = {top_vhd}
        /\ FileNode(pkg_vhd) \in Edges(top_vhd)
        /\ FileNode(top_vhd) \in Edges(tb_vhd)
        /\ topological_sort(graph) =
               [raised |-> "",
                order |-> <<FileNode(pkg_vhd), FileNode(top_vhd),
                            FileNode(tb_vhd)>>]

\* ================================================== claims on SpecParse
Instances(name) ==
    {source[i] : i \in {j \in DOMAIN source :
        source[j].stmt = "instance" /\ source[j].name = name}}

\* the first binding indication of the text for this label and component
FirstBinding(label, name) ==
    LET at == {i \in DOMAIN source :
                  /\ source[i].stmt = "binding"
                  /\ source[i].label = label
                  /\ source[i].name = name}
    IN  IF at = {} THEN NotParsed
        ELSE source[CHOOSE i \in at : \A j \in at : i <= j]

HasReference(kind, name) ==
    \E r \in parsed.references : r.kind = kind /\ r.name = name

C19_ParseNeverRaises ==
    parsed # NotParsed => parsed.raised = ""

\* ================================================ claims on SpecRebuild
OnlySkips(ev) ==
    \A i \in DOMAIN ev : ev[i][1] \in {"unchanged", "skip"}

\* the running attempt follows a fully successful attempt of the same tool
\* and has skipped every file so far
QuietRebuild ==
    /\ pc = "loop"
    /\ tool \in DOMAIN cache
    /\ failed[tool] = None
    /\ OnlySkips(events)

\* C21: a build attempt for T that follows a fully successful attempt for T,
\* with no file changed and every library still there, skips every file,
\* calls neither add_library nor compile and leaves the cache file as it was.
C21_NoOpRebuild ==
    [][QuietRebuild =>
          /\ idx <= NumFiles =>
                /\ HasEvent(NewEvents, "skip", idx)
                /\ OnlySkips(NewEvents)
                /\ cache' = cache
                /\ stored' = stored
                /\ libdirs' = libdirs
          /\ idx > NumFiles =>
                /\ outcome' = "ok"
                /\ skipped = NumFiles
                /\ cache' = cache
                /\ stored' = stored
      ]_vars

C21_Witness ==
    /\ pc = "idle"
    /\ outcome = "ok"
    /\ skipped = NumFiles
    /\ \A f \in Files : HasEvent(events, "skip", f)
    /\ \A i \in DOMAIN events :
          events[i][1] \in {"unchanged", "skip", "save_cache"}
    /\ stored = save_cache(cache)
    /\ \A f \in Files : f \in DOMAIN cache[tool].FILES

\* ===================================== utils.teed_call and its threads
program == <<buildvars, graphvars>>

Running == tcall.pc # "popen" /\ proc.returncode = NotExited

\* the process writes one line to a pipe that has room for it
ProcWrite(s, line) ==
    /\ Running
    /\ ~proc.closed[s]
    /\ Len(written[s]) < MaxLines
    /\ Len(proc.pipe[s]) < PipeSize
    /\ proc' = [proc EXCEPT !.pipe[s] = Append(@, line)]
    /\ written' = [written EXCEPT ![s] = Append(@, line)]
    /\ UNCHANGED <<program, threads, sinks, tcall>>

\* the process closes its end of a pipe
ProcClose(s) ==
    /\ Running
    /\ ~proc.closed[s]
    /\ proc' = [proc EXCEPT !.closed[s] = TRUE]
    /\ UNCHANGED <<program, written, threads, sinks, tcall>>

\* the process exits
ProcExit(code) ==
    /\ Running
    /\ \A s \in Streams : proc.closed[s]
    /\ proc' = [proc EXCEPT !.returncode = code]
    /\ UNCHANGED <<program, written, threads, sinks, tcall>>

\* teed_call, lines 170-175
Popen ==
    /\ tcall.pc = "popen"
    /\ tcall' = [tcall EXCEPT !.pc = "tee_stdout"]
    /\ UNCHANGED <<program, proc, written, threads, sinks>>

\* tee, lines 151-154, called at lines 177-180
Tee(s) ==
    /\ tcall.pc = IF s = "stdout" THEN "tee_stdout" ELSE "tee_stderr"
    /\ threads' = [threads EXCEPT ![s].pc = "readline"]
    /\ tcall' = [tcall EXCEPT !.pc =
                    IF s = "stdout" THEN "tee_stderr" ELSE "join_stdout"]
    /\ UNCHANGED <<program, proc, written, sinks>>

\* fanout, lines 143-149: readline blocks until a line or the end of file
FanoutReadline(s) ==
    /\ threads[s].pc = "readline"
    /\ IF proc.pipe[s] # <<>>
       THEN /\ proc' = [proc EXCEPT !.pipe[s] = Tail(@)]
            /\ threads' = [threads EXCEPT ![s] =
                   IF decode_raises(Head(proc.pipe[s]))
                   THEN [pc |-> "raised", line |-> ""]
                   ELSE [pc |-> "write", line |-> Head(proc.pipe[s])]]
       ELSE /\ proc.closed[s]
            /\ threads' = [threads EXCEPT ![s].pc = "close"]
            /\ UNCHANGED proc
    /\ UNCHANGED <<program, written, sinks, tcall>>

\* fanout, lines 146-147, and LogWrapper.write, line 165
FanoutWrite(s) ==
    /\ threads[s].pc = "write"
    /\ sinks' = [sinks EXCEPT
                    ![s].file = Append(@, rstrip(threads[s].line)),
                    ![s].log = Append(@, rstrip(threads[s].line))]
    /\ threads' = [threads EXCEPT ![s] = [pc |-> "readline", line |-> ""]]
    /\ UNCHANGED <<program, proc, written, tcall>>

\* fanout, line 150
FanoutClose(s) ==
    /\ threads[s].pc = "close"
    /\ threads' = [threads EXCEPT ![s].pc = "done"]
    /\ UNCHANGED <<program, proc, written, sinks, tcall>>

\* teed_call, lines 181-182
Join(s) ==
    /\ tcall.pc = IF s = "stdout" THEN "join_stdout" ELSE "join_stderr"
    /\ is_joined(s)
    /\ tcall' = [tcall EXCEPT !.pc =
                    IF s = "stdout" THEN "join_stderr" ELSE "wait"]
    /\ UNCHANGED <<program, proc, written, threads, sinks>>

\* teed_call, line 183
Wait ==
    /\ tcall.pc = "wait"
    /\ proc.returncode # NotExited
    /\ tcall' = [pc |-> "returned", result |-> proc.returncode]
    /\ UNCHANGED <<program, proc, written, threads, sinks>>

Process ==
    \/ \E s \in Streams, line \in Lines : ProcWrite(s, line)
    \/ \E s \in Streams : ProcClose(s)
    \/ \E code \in ExitCodes : ProcExit(code)

Fanout(s) == FanoutReadline(s) \/ FanoutWrite(s) \/ FanoutClose(s)

TeedCall == Popen \/ (\E s \in Streams : Tee(s) \/ Join(s)) \/ Wait

NextTee ==
    \/ Process
    \/ \E s \in Streams : Fanout(s)
    \/ TeedCall

SpecTee == Init /\ [][NextTee]_vars

\* the scheduler runs every thread that can take a step; the process closes
\* both of its streams and exits
FairTee ==
    /\ WF_vars(TeedCall)
    /\ \A s \in Streams : WF_vars(Fanout(s))
    /\ \A s \in Streams : WF_vars(ProcClose(s))
    /\ WF_vars(\E code \in ExitCodes : ProcExit(code))

SpecTeeFair == SpecTee /\ FairTee

\* ============================================== further claims on Spec
\* an idle step that rewrites the cache file: do_clean
CleanStep == pc = "idle" /\ pc' = "idle" /\ stored' # stored

\* all the cache holds was put there by the running (or last) attempt, as in
\* an attempt that started on the cache do_clean leaves
CacheFromThisRun ==
    /\ DOMAIN cache \subseteq {tool}
    /\ \A t \in DOMAIN cache :
          /\ \A f \in DOMAIN cache[t].FILES : HasEvent(events, "add_file", f)
          /\ \A l \in get_libraries(cache, t) :
                HasEvent(events, "cache_add_library", l)

NothingCached(c, dsk) ==
    /\ get_tool_names(c) = {}
    /\ \A t \in Tools :
          /\ \A f \in Files : dsk[f] # NoFile => is_file_changed(c, dsk, f, t)
          /\ \A l \in Libs : ~library_in_cache(c, l, t)

AfterClean ==
    [][CleanStep =>
          /\ NothingCached(cache', disk')
          /\ NothingCached(load_cache(stored'), disk')]_vars

EventAt(ev, kind, arg) ==
    IF HasEvent(ev, kind, arg)
    THEN CHOOSE i \in DOMAIN ev :
            /\ ev[i] = <<kind, arg>>
            /\ \A j \in DOMAIN ev : ev[j] = <<kind, arg>> => i <= j
    ELSE 0

\* the step on f reaches self.compile, whether or not it raises
CompileStepOn(f) == LoopStepOn(f) /\ HasEvent(NewEvents, "compile", f)

\* lines 122-125 have run for the library of f, before self.compile
LibraryCreatedFor(f) ==
    /\ HasEvent(NewEvents, "add_library", library[f])
    /\ EventAt(NewEvents, "add_library", library[f])
          < EventAt(NewEvents, "compile", f)
    /\ library[f] \in Range(created_libraries')
    /\ library_in_cache(cache', library[f], tool)

\* C24 as stated: whenever compile_project compiles a file whose library has
\* not yet been created in this run or does not physically exist, it creates
\* the library through add_library before compiling, marks it freshly
\* created for the rest of the run and registers it in the cache of the tool.
C24_Original ==
    [][\A f \in Files :
          (/\ CompileStepOn(f)
           /\ \/ ~HasEvent(events, "add_library", library[f])
              \/ ~library_exists(libdirs, library[f]))
          => LibraryCreatedFor(f)]_vars

\* C24 amended: whenever compile_project compiles a file whose library is not
\* registered in the cache of the tool or does not physically exist, it
\* creates the library through add_library before compiling, marks it
\* freshly created for the rest of the run and registers it in the cache.
C24_CreatesUnregisteredOrMissingLibrary ==
    [][\A f \in Files :
          (/\ CompileStepOn(f)
           /\ \/ ~library_in_cache(cache, library[f], tool)
              \/ ~library_exists(libdirs, library[f]))
          => LibraryCreatedFor(f)]_vars

\* an unchanged first file is compiled after its deleted library was made
C24_Witness ==
    /\ pc = "loop"
    /\ Len(events) >= 6
    /\ events[1] = <<"unchanged", 1>>
    /\ events[3] = <<"add_library", library[1]>>
    /\ events[6] = <<"compile", 1>>
    /\ library[1] \in Range(created_libraries)
    /\ library_in_cache(cache, library[1], tool)

\* C25: within the step of a file that is compiled, add_file records the new
\* hash first, then the library is created and registered in the cache when
\* that is required, then the external compile is invoked; compile is never
\* invoked for a file whose hash was not recorded in this step.
C25_HashThenLibraryThenCompile ==
    [][\A f \in Files :
          CompileStepOn(f) =>
              LET at(kind, arg) == EventAt(NewEvents, kind, arg)
                  lib == library[f]
              IN  /\ at("add_file", f) > 0
                  /\ at("add_file", f) < at("compile", f)
                  /\ ~is_file_changed(cache', disk', f, tool)
                  /\ HasEvent(NewEvents, "add_library", lib) =>
                        /\ at("add_file", f) < at("add_library", lib)
                        /\ at("add_library", lib)
                              < at("cache_add_library", Lower(lib))
                        /\ at("cache_add_library", Lower(lib))
                              < at("compile", f)
                        /\ library_in_cache(cache', lib, tool)
                  /\ (\/ ~library_in_cache(cache, lib, tool)
                      \/ ~library_exists(libdirs, lib))
                        => HasEvent(NewEvents, "add_library", lib)]_vars

C25_Witness ==
    /\ pc = "except"
    /\ exc = "ExecutionError"
    /\ file_object = 2
    /\ HasEvent(events, "skip", 1)
    /\ SubSeq(events, 3, Len(events)) =
          << <<"changed", 2>>, <<"add_file", 2>>,
             <<"add_library", library[2]>>,
             <<"cache_add_library", library[2]>>,
             <<"set_working_library", library[2]>>, <<"compile", 2>> >>
    /\ ~is_file_changed(cache, disk, 2, tool)

\* C28: between build attempts, for every tool and every file with a hash
\* recorded for that tool, the library of the file is in the library set
\* recorded for that tool.
C28_HashedFileHasRegisteredLibrary ==
    pc = "idle" =>
        \A t \in DOMAIN cache :
            \A f \in DOMAIN cache[t].FILES :
                library_in_cache(cache, library[f], t)

\* after an aborted attempt: two files of two libraries hashed for one tool,
\* one file hashed for the other tool
C28_Witness ==
    /\ pc = "idle"
    /\ outcome = "ExecutionError"
    /\ library[1] # library[2]
    /\ \E t, u \in DOMAIN cache :
          /\ t # u
          /\ DOMAIN cache[t].FILES = {1, 2}
          /\ DOMAIN cache[u].FILES = {1}
          /\ get_libraries(cache, u) = {library[1], library[2]}

\* C29: the steps of a build attempt with tool T (their add_file,
\* add_library and remove_file for T) leave the hashes and the library set of
\* every other tool as they were, so is_file_changed and library_in_cache of
\* every other tool keep their values.
C29_PerToolIsolation ==
    [][pc # "idle" =>
          \A u \in Tools \ {tool} :
              /\ u \in DOMAIN cache' <=> u \in DOMAIN cache
              /\ u \in DOMAIN cache => cache'[u] = cache[u]
              /\ \A f \in Files :
                    is_file_changed(cache', disk', f, u)
                        <=> is_file_changed(cache, disk, f, u)
              /\ \A l \in Libs :
                    library_in_cache(cache', l, u)
                        <=> library_in_cache(cache, l, u)]_vars

\* isim has hashed file 1 while modelsim keeps both of its hashes
C29_Witness ==
    /\ pc = "loop"
    /\ tool = "isim"
    /\ DOMAIN cache = {"isim", "modelsim"}
    /\ DOMAIN cache["modelsim"].FILES = {1, 2}
    /\ DOMAIN cache["isim"].FILES = {1}
    /\ HasEvent(events, "add_file", 1)
    /\ HasEvent(events, "cache_add_library", library[1])
    /\ is_file_changed(cache, disk, 2, "isim")
    /\ ~is_file_changed(cache, disk, 2, "modelsim")

\* ================================================ claims on SpecOneTool
\* C23: whenever compile_project skips a file, the current content of that
\* file was compiled without failure into its library after the most recent
\* creation of that library.
C23_SkipSoundness ==
    [][\A f \in Files :
          (LoopStepOn(f) /\ HasEvent(NewEvents, "skip", f)) =>
              compiled[tool][f] = disk[f]]_vars

\* ============================================ further claims on SpecParse
\* C26: a component instantiation of C at label L for which the text has no
\* binding indication of (L, C) resolves to the target of `for all : C use`
\* when the text has one, also when L carries a binding indication for
\* another component; only when there is neither does it resolve to the
\* Component C and the implicit Entity C.
C26_AllBindingApplies ==
    parsed.raised = "" =>
        \A l \in Labels :
            (/\ FirstBinding(l, "c") = NotParsed
             /\ Instances("c") = {Statement("instance", l, NoLibrary, "c", "")})
            => LET b == FirstBinding("all", "c")
               IN  IF b # NotParsed
                   THEN /\ HasReference("Entity", b.target)
                        /\ ~HasReference("Component", "c")
                        /\ ~HasReference("Entity", "c")
                   ELSE /\ HasReference("Component", "c")
                        /\ HasReference("Entity", "c")

\* C27: the library the project assigns the file to (lib_a) is visible
\* without a library clause: a use clause naming it yields a Package
\* reference, equal to the Package definition a file of lib_a records.
C27_OwnLibraryVisible ==
    (/\ parsed # NotParsed
     /\ parsed.raised = ""
     /\ \E i \in DOMAIN source :
           source[i] = Statement("use", "", "lib_a", "e", ""))
    => \E r \in parsed.references :
          \E d \in all_definitions(
                       <<Statement("declaration", "", "", "e", "Package")>>,
                       "lib_a") :
              Key(r) = Key(d)

\* ============================================= claims on SpecTeeFair
\* what fanout makes of the lines written to a stream
Forwarded(s) == [i \in DOMAIN written[s] |-> rstrip(written[s][i])]

\* C30: teed_call returns the exit code of the process only after both
\* forwarding threads have ended; at return every line the process wrote to
\* stdout is in the stdout sink, in order, and every stderr line in the
\* stderr sink; and the call returns whenever the process closes both
\* streams and exits.
C30_TeedCallForwardsAll ==
    /\ [](tcall.pc = "returned" =>
            /\ tcall.result = proc.returncode
            /\ \A s \in Streams :
                  /\ threads[s].pc \in Ended
                  /\ sinks[s].file = Forwarded(s))
    /\ <>(tcall.pc = "returned")

====
